---- MODULE Spec2Model ----
(***************************************************************************)
(* The TodoList component of src/TodoList.tsx (the priority-aware edition, *)
(* lines 249-792): its React state, its event handlers, the effect that    *)
(* loads the remote tasks, and the values derived on every render.  Lines  *)
(* 1-248 of the file hold the first edition of the same component, which   *)
(* this one replaces; its handlers appear below only as variants that the  *)
(* properties must tell apart from the ones modelled.                      *)
(*                                                                         *)
(* A title is a sequence of one-character strings, so that trim() is a     *)
(* computation.  Date.now() and new Date() read the variable clock.  A     *)
(* task's createdAt, which only the tooltip of a list item reads, is left  *)
(* out of the task records.                                                *)
(***************************************************************************)
EXTENDS Integers, Sequences, FiniteSets, TLC

VARIABLES
    todos,             \* useState<Task[]>(initialTasks)
    inputValue,        \* useState<string>("")
    filtre,            \* useState<FilterType>("tous")
    isLoading,         \* useState<boolean>(false)
    error,             \* useState<string>("")
    lastUpdated,       \* useState<Date>(new Date())
    selectedPriority,  \* useState<"low" | "medium" | "high">("medium")
    initialTasks,      \* prop, as of the latest render
    maxTodos,          \* prop
    enablePriority,    \* prop
    pending,           \* fetch requests in flight: the initialTasks each closure captured
    clock,             \* the value Date.now() returned last
    alive,             \* the component is mounted
    requests,          \* history: number of fetch requests issued so far
    lastOp             \* history: the latest handler or loader step that ran, and its branch

vars == <<todos, inputValue, filtre, isLoading, error, lastUpdated,
          selectedPriority, initialTasks, maxTodos, enablePriority, pending,
          clock, alive, requests, lastOp>>

----------------------------------------------------------------------------
(* Bounds of the model. *)

MaxMaxTodos == 2     \* maxTodos ranges over 1..MaxMaxTodos
MaxTitleLen == 1     \* longest text typed into the input
MaxRemote == 2       \* largest batch the remote source answers with
MaxInitial == 1      \* longest initialTasks the parent passes
MaxTicks == 1        \* milliseconds the clock advances in one run
MaxFetches == 2      \* fetch requests issued in one run
ClockBase == 100     \* Date.now() at mount; far above the remote ids
MaxProgressLen == 40 \* longest list whose progress is computed
MaxListLen == 3      \* longest list whose view is computed

----------------------------------------------------------------------------
(* Values. *)

Priorities == {"low", "medium", "high"}

Whitespace == {" "}

Chars == Whitespace \cup {"a"}

(* A text with whitespace on both sides. *)
PaddedTitle == <<" ", "a", " ">>

Titles == UNION {[1..n -> Chars] : n \in 0..MaxTitleLen} \cup {PaddedTitle}

NoUser == 0   \* userId is undefined

Min(a, b) == IF a < b THEN a ELSE b

(* The tasks the example parent passes (titles shortened to one letter). *)
AppInitialTasks ==
    << [id |-> 1, titre |-> <<"a">>, isCompleted |-> FALSE, userId |-> NoUser,
        priority |-> "high"],
       [id |-> 2, titre |-> <<"a">>, isCompleted |-> TRUE, userId |-> NoUser,
        priority |-> "medium"],
       [id |-> 3, titre |-> <<"a">>, isCompleted |-> FALSE, userId |-> NoUser,
        priority |-> "high"] >>

InitialTaskLists ==
    {SubSeq(AppInitialTasks, 1, Min(n, Len(AppInitialTasks))) : n \in 0..MaxInitial}

(* One record of the remote source's answer (interface ApiResponse). *)
ApiRecord(i) ==
    [id |-> i, title |-> <<"a">>, completed |-> (i % 2 = 0), userId |-> 1]

(* What the request can come back with: fetch() rejecting, a body that is  *)
(* no JSON, a JSON value that is no array, or an array of records.         *)
Responses ==
    {[kind |-> "networkError", data |-> <<>>],
     [kind |-> "invalidJson", data |-> <<>>],
     [kind |-> "notArray", data |-> <<>>]}
    \cup {[kind |-> "array", data |-> [i \in 1..n |-> ApiRecord(i)]] : n \in 0..MaxRemote}

----------------------------------------------------------------------------
(* Pure helpers. *)

RECURSIVE trimStart(_)
trimStart(s) ==
    IF s # <<>> /\ Head(s) \in Whitespace THEN trimStart(Tail(s)) ELSE s

RECURSIVE trimEnd(_)
trimEnd(s) ==
    IF s # <<>> /\ s[Len(s)] \in Whitespace
    THEN trimEnd(SubSeq(s, 1, Len(s) - 1))
    ELSE s

trim(s) == trimEnd(trimStart(s))

(* data.map((item, index) => ...): index counts from 0. *)
apiTasks(data) ==
    [k \in 1..Len(data) |->
        LET index == k - 1 IN
        [id |-> data[k].id,
         titre |-> data[k].title,
         isCompleted |-> data[k].completed,
         userId |-> data[k].userId,
         priority |-> IF index % 3 = 0 THEN "high"
                      ELSE IF index % 2 = 0 THEN "medium" ELSE "low"]]

(* The try block throws: fetch rejects, response.json() rejects, or        *)
(* data.map is not a function.                                             *)
fetchThrows(resp) == resp.kind \in {"networkError", "invalidJson", "notArray"}

(* newTask as the first edition of the handler builds it (titre:           *)
(* inputValue): the text is stored as typed.                               *)
newTaskUntrimmed(title, now, prio) ==
    [id |-> now, titre |-> title, isCompleted |-> FALSE,
     userId |-> NoUser, priority |-> prio]

newTask(title, now, prio) ==
    [id |-> now, titre |-> trim(title), isCompleted |-> FALSE,
     userId |-> NoUser, priority |-> prio]

(* toggled with the flag set instead of flipped. *)
toggledForced(list, id) ==
    [k \in 1..Len(list) |->
        IF list[k].id = id THEN [list[k] EXCEPT !.isCompleted = TRUE] ELSE list[k]]

toggled(list, id) ==
    [k \in 1..Len(list) |->
        IF list[k].id = id
        THEN [list[k] EXCEPT !.isCompleted = ~list[k].isCompleted]
        ELSE list[k]]

(* supprime written with indexOf and splice: an id that is not found       *)
(* gives index -1, and splice(-1, 1) takes the last task away.             *)
supprimeSplice(list, id) ==
    IF \E k \in 1..Len(list) : list[k].id = id
    THEN LET k == CHOOSE k \in 1..Len(list) :
                      list[k].id = id /\ \A j \in 1..(k - 1) : list[j].id # id
         IN SubSeq(list, 1, k - 1) \o SubSeq(list, k + 1, Len(list))
    ELSE SubSeq(list, 1, Len(list) - 1)

(* todo.id != id, both numbers here: the handler is given todo.id. *)
supprime(list, id) == SelectSeq(list, LAMBDA t : t.id # id)

(* A clear that takes away the first completed task only. *)
sansFirstCompleted(list) ==
    IF \A k \in 1..Len(list) : ~list[k].isCompleted THEN list
    ELSE LET first == CHOOSE k \in 1..Len(list) :
                          list[k].isCompleted /\ \A j \in 1..(k - 1) : ~list[j].isCompleted
         IN SubSeq(list, 1, first - 1) \o SubSeq(list, first + 1, Len(list))

sansCompleted(list) == SelectSeq(list, LAMBDA t : ~t.isCompleted)

(* A complete-all that builds each task anew and forgets its priority. *)
toutCompletedNoSpread(list) ==
    [k \in 1..Len(list) |->
        [id |-> list[k].id, titre |-> list[k].titre, isCompleted |-> TRUE,
         userId |-> list[k].userId, priority |-> "medium"]]

toutCompleted(list) ==
    [k \in 1..Len(list) |-> [list[k] EXCEPT !.isCompleted = TRUE]]

remainingTasks == Len(SelectSeq(todos, LAMBDA t : ~t.isCompleted))

completedTasks == Len(todos) - remainingTasks

(* The numbers of line 402 are IEEE doubles: completed / todos.length is    *)
(* rounded to a significand of DoubleBits bits, the product by 100 is      *)
(* rounded again, and Math.round takes the result. A double is modelled as *)
(* [bits, scale]: the significand, most significant bit first, and the     *)
(* number of its bits that lie after the binary point.                     *)
DoubleBits == 53

(* the exact product by 100 is taken in limbs that fit the model's integers *)
LimbBits == 20

zeros(k) == [i \in 1..k |-> 0]

RECURSIVE bitsToInt(_)
bitsToInt(bits) ==
    IF bits = <<>> THEN 0
    ELSE IF Len(bits) = 1 THEN bits[1]
    ELSE bitsToInt(SubSeq(bits, 1, Len(bits) \div 2)) * 2^(Len(bits) - Len(bits) \div 2)
         + bitsToInt(SubSeq(bits, Len(bits) \div 2 + 1, Len(bits)))

intToBits(v, width) == [i \in 1..width |-> (v \div 2^(width - i)) % 2]

stripZeros(bits) ==
    IF \A i \in 1..Len(bits) : bits[i] = 0 THEN <<>>
    ELSE SubSeq(bits, CHOOSE i \in 1..Len(bits) :
                          bits[i] = 1 /\ \A j \in 1..(i - 1) : bits[j] = 0,
                Len(bits))

increment(bits) ==
    IF \A i \in 1..Len(bits) : bits[i] = 1 THEN <<1>> \o zeros(Len(bits))
    ELSE LET p == CHOOSE i \in 1..Len(bits) :
                      bits[i] = 0 /\ \A j \in (i + 1)..Len(bits) : bits[j] = 1
         IN [i \in 1..Len(bits) |-> IF i < p THEN bits[i] ELSE IF i = p THEN 1 ELSE 0]

(* round to nearest, ties to even; x.sticky: nonzero bits follow x.bits *)
roundToDouble(x) ==
    IF Len(x.bits) <= DoubleBits THEN [bits |-> x.bits, scale |-> x.scale]
    ELSE LET kept == SubSeq(x.bits, 1, DoubleBits)
             cut  == SubSeq(x.bits, DoubleBits + 1, Len(x.bits))
             up   == /\ cut[1] = 1
                     /\ \/ \E i \in 2..Len(cut) : cut[i] = 1
                        \/ x.sticky
                        \/ kept[DoubleBits] = 1
         IN [bits |-> IF up THEN increment(kept) ELSE kept,
             scale |-> x.scale - Len(cut)]

(* 2^k modulo n, by squaring *)
RECURSIVE pow2mod(_, _)
pow2mod(k, n) ==
    IF k = 0 THEN 1 % n
    ELSE IF k % 2 = 1 THEN (2 * pow2mod(k - 1, n)) % n
    ELSE (pow2mod(k \div 2, n) * pow2mod(k \div 2, n)) % n

(* the bits k+1 .. k+count after the binary point of c / n, c < n, and     *)
(* whether anything but zeros follows them                                 *)
quotientBits(c, n, k, count) ==
    [bits |-> [i \in 1..count |-> (2 * ((c * pow2mod(k + i - 1, n)) % n)) \div n],
     sticky |-> (c * pow2mod(k + count, n)) % n # 0]

(* c / n as a double, 0 < c <= n: the bits of c / (2n) from its first 1 on *)
divide(c, n) ==
    LET z == CHOOSE k \in 0..(2 * n) : c * 2^k < 2 * n /\ c * 2^(k + 1) >= 2 * n
        q == quotientBits(c, 2 * n, z, DoubleBits + 1)
    IN roundToDouble([bits |-> q.bits, scale |-> z + DoubleBits,
                      sticky |-> q.sticky])

limb(bits, k) ==
    bitsToInt(SubSeq(bits, IF Len(bits) - (k + 1) * LimbBits + 1 < 1 THEN 1
                           ELSE Len(bits) - (k + 1) * LimbBits + 1,
                     Len(bits) - k * LimbBits))

(* x * 100 as a double *)
times100(x) ==
    LET p0 == 100 * limb(x.bits, 0)
        p1 == 100 * limb(x.bits, 1) + p0 \div 2^LimbBits
        p2 == 100 * limb(x.bits, 2) + p1 \div 2^LimbBits
    IN roundToDouble([bits |-> stripZeros(intToBits(p2, LimbBits + 7)
                                          \o intToBits(p1 % 2^LimbBits, LimbBits)
                                          \o intToBits(p0 % 2^LimbBits, LimbBits)),
                      scale |-> x.scale, sticky |-> FALSE])

(* Math.round(x) for x > 0: floor(x + 1/2) *)
mathRound(x) ==
    LET whole == Len(x.bits) - x.scale
    IN IF whole < 0 THEN 0
       ELSE bitsToInt(SubSeq(x.bits, 1, whole))
            + (IF whole < Len(x.bits) THEN x.bits[whole + 1] ELSE 0)

(* Math.round((c / n) * 100), 0 <= c <= n, n > 0 *)
roundPercent(c, n) == IF c = 0 THEN 0 ELSE mathRound(times100(divide(c, n)))

progressOf(list) ==
    IF Len(list) = 0 THEN "0%"
    ELSE LET completed == Len(list) - Len(SelectSeq(list, LAMBDA t : ~t.isCompleted))
         IN ToString(roundPercent(completed, Len(list))) \o "%"

calculerProgress == progressOf(todos)

(* A filter whose high-priority mode forgets the completion flag. *)
matchesFiltreAnyHigh(todo, f) ==
    CASE f = "terminé" -> todo.isCompleted
      [] f = "active" -> ~todo.isCompleted
      [] f = "high-priority" -> todo.priority = "high"
      [] OTHER -> TRUE

matchesFiltre(todo, f) ==
    CASE f = "terminé" -> todo.isCompleted
      [] f = "active" -> ~todo.isCompleted
      [] f = "high-priority" -> todo.priority = "high" /\ ~todo.isCompleted
      [] OTHER -> TRUE

FilterTypes == {"tous", "active", "terminé", "high-priority"}

(* A comparator that also ranks medium before low. *)
comparePriorityRanked(a, b) ==
    LET rank(t) == CASE t.priority = "high" -> 0
                     [] t.priority = "medium" -> 1
                     [] OTHER -> 2
    IN IF rank(a) < rank(b) THEN -1 ELSE IF rank(a) > rank(b) THEN 1 ELSE 0

(* The comparator handed to sort(). *)
comparePriority(a, b) ==
    IF a.priority = "high" /\ b.priority # "high" THEN -1
    ELSE IF b.priority = "high" /\ a.priority # "high" THEN 1
    ELSE 0

(* Array.prototype.sort is stable: x goes behind every element that does   *)
(* not compare greater than it.                                            *)
RECURSIVE insertSorted(_, _)
insertSorted(sorted, x) ==
    IF sorted = <<>> THEN <<x>>
    ELSE IF comparePriority(sorted[Len(sorted)], x) <= 0 THEN Append(sorted, x)
    ELSE Append(insertSorted(SubSeq(sorted, 1, Len(sorted) - 1), x),
                sorted[Len(sorted)])

RECURSIVE sortByPriority(_)
sortByPriority(list) ==
    IF list = <<>> THEN <<>>
    ELSE insertSorted(sortByPriority(SubSeq(list, 1, Len(list) - 1)), list[Len(list)])

viewOf(list, f) == sortByPriority(SelectSeq(list, LAMBDA t : matchesFiltre(t, f)))

filteredTodos == viewOf(todos, filtre)

visibleIds == {filteredTodos[k].id : k \in 1..Len(filteredTodos)}

FilterButtons == {"tous", "active", "terminé"}
                    \cup (IF enablePriority THEN {"high-priority"} ELSE {})

----------------------------------------------------------------------------
(* The state after construction: the first render and the effect it runs.  *)
(* The effect calls fetchTodos() only when initialTasks is empty.          *)

Init ==
    /\ maxTodos \in 1..MaxMaxTodos
    /\ enablePriority \in BOOLEAN
    /\ initialTasks \in InitialTaskLists
    /\ todos = initialTasks
    /\ inputValue = <<>>
    /\ filtre = "tous"
    /\ error = ""
    /\ clock = ClockBase
    /\ lastUpdated = ClockBase
    /\ selectedPriority = "medium"
    /\ alive = TRUE
    /\ IF Len(initialTasks) = 0
       THEN isLoading = TRUE /\ pending = <<initialTasks>> /\ requests = 1
       ELSE isLoading = FALSE /\ pending = <<>> /\ requests = 0
    /\ lastOp = "mount"

(* onChange of the text input, which is disabled while isLoading. *)
setInputValue(v) ==
    /\ alive
    /\ ~isLoading
    /\ inputValue' = v
    /\ UNCHANGED <<todos, filtre, isLoading, error, lastUpdated,
                   selectedPriority, initialTasks, maxTodos, enablePriority,
                   pending, clock, alive, requests, lastOp>>

(* onChange of the priority select: rendered when enablePriority, disabled *)
(* while isLoading.                                                        *)
setSelectedPriority(p) ==
    /\ alive
    /\ enablePriority
    /\ ~isLoading
    /\ selectedPriority' = p
    /\ UNCHANGED <<todos, inputValue, filtre, isLoading, error, lastUpdated,
                   initialTasks, maxTodos, enablePriority, pending, clock,
                   alive, requests, lastOp>>

(* A filter button. *)
changerFiltre(nouveauFiltre) ==
    /\ alive
    /\ nouveauFiltre \in FilterButtons
    /\ filtre' = nouveauFiltre
    /\ UNCHANGED <<todos, inputValue, isLoading, error, lastUpdated,
                   selectedPriority, initialTasks, maxTodos, enablePriority,
                   pending, clock, alive, requests, lastOp>>

(* The button of the error banner: setError(""). *)
dismissError ==
    /\ alive
    /\ error # ""
    /\ error' = ""
    /\ UNCHANGED <<todos, inputValue, filtre, isLoading, lastUpdated,
                   selectedPriority, initialTasks, maxTodos, enablePriority,
                   pending, clock, alive, requests, lastOp>>

(* ajouterTodo as the first edition of the handler has it: no look at      *)
(* maxTodos.                                                               *)
ajouterTodoNoLimit(now) ==
    /\ alive
    /\ ~isLoading
    /\ now >= clock
    /\ IF trim(inputValue) # <<>>
       THEN /\ todos' = Append(todos,
                   newTask(inputValue, now,
                           IF enablePriority THEN selectedPriority ELSE "medium"))
            /\ inputValue' = <<>>
            /\ lastUpdated' = now
            /\ clock' = now
            /\ lastOp' = "ajouterTodo:added"
       ELSE /\ lastOp' = "ajouterTodo:blank"
            /\ UNCHANGED <<todos, inputValue, lastUpdated, clock>>
    /\ UNCHANGED <<filtre, isLoading, error, selectedPriority, initialTasks,
                   maxTodos, enablePriority, pending, alive, requests>>

(* Enter in the text input (handleKeyPress) or the Ajouter button.  The    *)
(* input is disabled while isLoading; the button also when the trimmed     *)
(* text is empty or the list is full, where the handler changes nothing.   *)
(* At the limit the handler calls alert() and returns.  now is what        *)
(* Date.now() returns: the millisecond of the previous call or a later one.*)
ajouterTodo(now) ==
    /\ alive
    /\ ~isLoading
    /\ now >= clock
    /\ IF trim(inputValue) # <<>>
       THEN IF Len(todos) >= maxTodos
            THEN /\ lastOp' = "ajouterTodo:limit"
                 /\ UNCHANGED <<todos, inputValue, lastUpdated, clock>>
            ELSE /\ todos' = Append(todos,
                        newTask(inputValue, now,
                                IF enablePriority THEN selectedPriority ELSE "medium"))
                 /\ inputValue' = <<>>
                 /\ lastUpdated' = now
                 /\ clock' = now
                 /\ lastOp' = "ajouterTodo:added"
       ELSE /\ lastOp' = "ajouterTodo:blank"
            /\ UNCHANGED <<todos, inputValue, lastUpdated, clock>>
    /\ UNCHANGED <<filtre, isLoading, error, selectedPriority, initialTasks,
                   maxTodos, enablePriority, pending, alive, requests>>

(* The checkbox or the text of a listed task. *)
toggleTask(id) ==
    /\ alive
    /\ id \in visibleIds
    /\ todos' = toggled(todos, id)
    /\ lastOp' = "toggleTask"
    /\ UNCHANGED <<inputValue, filtre, isLoading, error, lastUpdated,
                   selectedPriority, initialTasks, maxTodos, enablePriority,
                   pending, clock, alive, requests>>

(* The delete button of a listed task. *)
supprimerTask(id) ==
    /\ alive
    /\ id \in visibleIds
    /\ todos' = supprime(todos, id)
    /\ lastOp' = "supprimerTask"
    /\ UNCHANGED <<inputValue, filtre, isLoading, error, lastUpdated,
                   selectedPriority, initialTasks, maxTodos, enablePriority,
                   pending, clock, alive, requests>>

(* The Nettoyer button, disabled when completedTasks === 0. *)
clearCompletedTodos ==
    /\ alive
    /\ completedTasks # 0
    /\ todos' = sansCompleted(todos)
    /\ lastOp' = "clearCompletedTodos"
    /\ UNCHANGED <<inputValue, filtre, isLoading, error, lastUpdated,
                   selectedPriority, initialTasks, maxTodos, enablePriority,
                   pending, clock, alive, requests>>

(* The Tout terminer button, disabled when remainingTasks === 0. *)
marquerToutCompleted ==
    /\ alive
    /\ remainingTasks # 0
    /\ todos' = toutCompleted(todos)
    /\ lastOp' = "marquerToutCompleted"
    /\ UNCHANGED <<inputValue, filtre, isLoading, error, lastUpdated,
                   selectedPriority, initialTasks, maxTodos, enablePriority,
                   pending, clock, alive, requests>>

(* The parent renders the component again with another initialTasks.  The  *)
(* effect depends on initialTasks.length: when the length changed it runs  *)
(* again, and calls fetchTodos() when the new list is empty.               *)
rerender(newInitialTasks) ==
    /\ alive
    /\ newInitialTasks # initialTasks
    /\ initialTasks' = newInitialTasks
    /\ IF Len(newInitialTasks) # Len(initialTasks) /\ Len(newInitialTasks) = 0
       THEN /\ requests < MaxFetches
            /\ isLoading' = TRUE
            /\ error' = ""
            /\ pending' = Append(pending, newInitialTasks)
            /\ requests' = requests + 1
            /\ lastOp' = "fetchTodos"
       ELSE UNCHANGED <<isLoading, error, pending, requests, lastOp>>
    /\ UNCHANGED <<todos, inputValue, filtre, lastUpdated, selectedPriority,
                   maxTodos, enablePriority, clock, alive>>

(* fetchSettled as the first edition of the effect has it: a promise chain *)
(* with no catch and no finally, so a failure sets nothing.                *)
fetchSettledNoCatch(i, resp) ==
    /\ i \in 1..Len(pending)
    /\ pending' = SubSeq(pending, 1, i - 1) \o SubSeq(pending, i + 1, Len(pending))
    /\ IF ~alive
       THEN UNCHANGED <<todos, error, isLoading, lastOp>>
       ELSE IF fetchThrows(resp)
       THEN /\ lastOp' = "fetchFailed"
            /\ UNCHANGED <<todos, error, isLoading>>
       ELSE /\ todos' = pending[i] \o apiTasks(resp.data)
            /\ isLoading' = FALSE
            /\ lastOp' = "fetchLoaded"
            /\ UNCHANGED error
    /\ UNCHANGED <<inputValue, filtre, lastUpdated, selectedPriority,
                   initialTasks, maxTodos, enablePriority, clock, alive, requests>>

(* A request in flight comes back.  On an unmounted component the state    *)
(* setters do nothing.                                                     *)
fetchSettled(i, resp) ==
    /\ i \in 1..Len(pending)
    /\ pending' = SubSeq(pending, 1, i - 1) \o SubSeq(pending, i + 1, Len(pending))
    /\ IF ~alive
       THEN UNCHANGED <<todos, error, isLoading, lastOp>>
       ELSE IF fetchThrows(resp)
       THEN /\ error' = "Erreur lors du chargement"
            /\ isLoading' = FALSE
            /\ lastOp' = "fetchFailed"
            /\ UNCHANGED todos
       ELSE /\ todos' = pending[i] \o apiTasks(resp.data)
            /\ isLoading' = FALSE
            /\ lastOp' = "fetchLoaded"
            /\ UNCHANGED error
    /\ UNCHANGED <<inputValue, filtre, lastUpdated, selectedPriority,
                   initialTasks, maxTodos, enablePriority, clock, alive, requests>>

(* The hosting UI removes the component while a request is in flight;     *)
(* removed at any other time, no step of the component runs afterwards.   *)
unmount ==
    /\ alive
    /\ pending # <<>>
    /\ alive' = FALSE
    /\ UNCHANGED <<todos, inputValue, filtre, isLoading, error, lastUpdated,
                   selectedPriority, initialTasks, maxTodos, enablePriority,
                   pending, clock, requests, lastOp>>

Next ==
    \/ \E v \in Titles : setInputValue(v)
    \/ \E p \in Priorities : setSelectedPriority(p)
    \/ \E f \in FilterButtons : changerFiltre(f)
    \/ dismissError
    \/ \E now \in ClockBase..(ClockBase + MaxTicks) : ajouterTodo(now)
    \/ \E id \in visibleIds : toggleTask(id)
    \/ \E id \in visibleIds : supprimerTask(id)
    \/ clearCompletedTodos
    \/ marquerToutCompleted
    \/ \E l \in InitialTaskLists : rerender(l)
    \/ \E i \in 1..Len(pending), resp \in Responses : fetchSettled(i, resp)
    \/ unmount

Spec == Init /\ [][Next]_vars

----------------------------------------------------------------------------
(* The component mounted on a longer list: the parent passes up to         *)
(* MaxProgressLen tasks of which the first ones are completed, maxTodos     *)
(* and enablePriority keep their defaults, and the user only uses the      *)
(* buttons of the footer and of the filter bar.                            *)

DefaultMaxTodos == 100

progressTasks(n, c) ==
    [k \in 1..n |-> [id |-> k, titre |-> <<"a">>, isCompleted |-> (k <= c),
                     userId |-> NoUser, priority |-> "medium"]]

ProgressInit ==
    /\ maxTodos = DefaultMaxTodos
    /\ enablePriority = FALSE
    /\ initialTasks \in UNION {{progressTasks(n, c) : c \in 0..n} :
                                  n \in 1..MaxProgressLen}
    /\ todos = initialTasks
    /\ inputValue = <<>>
    /\ filtre = "tous"
    /\ error = ""
    /\ clock = ClockBase
    /\ lastUpdated = ClockBase
    /\ selectedPriority = "medium"
    /\ alive = TRUE
    /\ isLoading = FALSE
    /\ pending = <<>>
    /\ requests = 0
    /\ lastOp = "mount"

ProgressNext ==
    \/ \E f \in FilterButtons : changerFiltre(f)
    \/ clearCompletedTodos
    \/ marquerToutCompleted

ProgressSpec == ProgressInit /\ [][ProgressNext]_vars

----------------------------------------------------------------------------
(* The component mounted on any list of up to MaxListLen tasks the parent  *)
(* passes, with priorities enabled: no load starts, and the user filters,  *)
(* toggles, removes, clears and completes.                                 *)

taskLists(n) ==
    {[k \in 1..n |-> [id |-> k, titre |-> <<"a">>, isCompleted |-> f[k][2],
                      userId |-> NoUser, priority |-> f[k][1]]] :
        f \in [1..n -> Priorities \X BOOLEAN]}

ListInit ==
    /\ maxTodos = DefaultMaxTodos
    /\ enablePriority = TRUE
    /\ initialTasks \in UNION {taskLists(n) : n \in 1..MaxListLen}
    /\ todos = initialTasks
    /\ inputValue = <<>>
    /\ filtre = "tous"
    /\ error = ""
    /\ clock = ClockBase
    /\ lastUpdated = ClockBase
    /\ selectedPriority = "medium"
    /\ alive = TRUE
    /\ isLoading = FALSE
    /\ pending = <<>>
    /\ requests = 0
    /\ lastOp = "mount"

ListNext ==
    \/ \E f \in FilterButtons : changerFiltre(f)
    \/ \E id \in visibleIds : toggleTask(id)
    \/ \E id \in visibleIds : supprimerTask(id)
    \/ clearCompletedTodos
    \/ marquerToutCompleted

ListSpec == ListInit /\ [][ListNext]_vars

----------------------------------------------------------------------------
(* Vocabulary of the properties. *)

idsOf(list) == {list[k].id : k \in 1..Len(list)}

(* Every id a task can carry, and 0, which none carries. *)
IdUniverse ==
    {0} \cup idsOf(AppInitialTasks) \cup (1..MaxRemote)
        \cup (ClockBase..(ClockBase + MaxTicks))

IsPrefix(s, t) == Len(s) <= Len(t) /\ SubSeq(t, 1, Len(s)) = s

(* The step in which a request of the mounted component comes back with an *)
(* array of records, and the one in which it comes back with anything else.*)
LoadedStep ==
    \E i \in 1..Len(pending), resp \in Responses :
        fetchSettled(i, resp) /\ alive /\ resp.kind = "array"

FailedStep ==
    \E i \in 1..Len(pending), resp \in Responses :
        fetchSettled(i, resp) /\ alive /\ resp.kind # "array"

AddStep == \E now \in ClockBase..(ClockBase + MaxTicks) : ajouterTodo(now)

----------------------------------------------------------------------------
(* C1: in every reachable state the number of tasks is at most maxTodos.   *)
(* The loader appends its whole batch without looking at maxTodos.         *)
C1_CountWithinMax == Len(todos) <= maxTodos

(* C2: a successful load is additive: the tasks in the store just before   *)
(* it are all still there afterwards, in front of the loaded ones.         *)
C2_MergeIsAdditive == [][LoadedStep => IsPrefix(todos, todos')]_vars

(* C3: in every reachable state no two tasks have the same id. *)
C3_IdsUnique ==
    \A i, j \in 1..Len(todos) : i # j => todos[i].id # todos[j].id

C5_AtMostOneRequest == requests <= 1

(* C6: a component constructed with a non-empty initialTasks (one that has *)
(* issued no request when construction ends) never issues a request.       *)
C6_NoLoadWhenSeeded == [][requests = 0 => requests' = 0]_vars

(* C7, as stated: an add with a non-empty text grows the list by exactly   *)
(* one below maxTodos and leaves its size alone at or above maxTodos.      *)
C7_AddNonEmptyText ==
    [][AddStep /\ inputValue # <<>> =>
          Len(todos') = IF Len(todos) < maxTodos THEN Len(todos) + 1
                        ELSE Len(todos)]_vars

(* C7, amended: the same for a text that is non-empty after trimming. *)
C7_AddNonBlankText ==
    [][AddStep /\ trim(inputValue) # <<>> =>
          Len(todos') = IF Len(todos) < maxTodos THEN Len(todos) + 1
                        ELSE Len(todos)]_vars

(* An add with a non-blank text has just been turned down by a full list. *)
C7_Witness ==
    /\ lastOp = "ajouterTodo:limit"
    /\ trim(inputValue) # <<>>
    /\ Len(todos) >= maxTodos

(* C8: an add whose text is empty after trimming leaves the list alone; an *)
(* add that succeeds appends one task with the trimmed, non-empty text and *)
(* isCompleted = FALSE; and a list of one task, once the task is toggled   *)
(* to completed, has remaining 0, completed 1 and progress "100%".         *)
C8_AddAppendsTrimmed ==
    [][/\ AddStep =>
            IF trim(inputValue) = <<>>
            THEN todos' = todos
            ELSE \/ todos' = todos
                 \/ /\ Len(todos') = Len(todos) + 1
                    /\ IsPrefix(todos, todos')
                    /\ todos'[Len(todos')].titre = trim(inputValue)
                    /\ todos'[Len(todos')].titre # <<>>
                    /\ todos'[Len(todos')].isCompleted = FALSE
       /\ Len(todos) = 1 /\ ~todos[1].isCompleted
            /\ (\E id \in visibleIds : toggleTask(id)) =>
                /\ Len(todos') = 1
                /\ remainingTasks' = 0
                /\ completedTasks' = 1
                /\ progressOf(todos') = "100%"]_vars

(* The one task of the list, added by the user and titled with the        *)
(* trimmed text, has just been toggled to completed.                       *)
C8_Witness ==
    /\ lastOp = "toggleTask"
    /\ Len(todos) = 1
    /\ todos[1].id >= ClockBase
    /\ todos[1].titre = trim(PaddedTitle)
    /\ todos[1].isCompleted
    /\ calculerProgress = "100%"

(* C9: toggling the same id twice in a row gives back the list as it was:  *)
(* same tasks, same order, same isCompleted values.                        *)
C9_ToggleTwice ==
    \A id \in IdUniverse : toggled(toggled(todos, id), id) = todos

(* A toggle has just run, and some id of the list changes it when toggled  *)
(* once and restores it when toggled twice.                                *)
C9_Witness ==
    /\ lastOp = "toggleTask"
    /\ \E id \in idsOf(todos) :
          /\ toggled(todos, id) # todos
          /\ toggled(toggled(todos, id), id) = todos

(* C10: removing an id no task carries leaves the list alone, so removing  *)
(* an id twice gives the same list as removing it once.                    *)
C10_RemoveIdempotent ==
    \A id \in IdUniverse :
        /\ id \notin idsOf(todos) => supprime(todos, id) = todos
        /\ supprime(supprime(todos, id), id) = supprime(todos, id)

(* A task has just been removed from a list that still holds others, and   *)
(* removing an id that is gone changes nothing.                            *)
C10_Witness ==
    /\ lastOp = "supprimerTask"
    /\ todos # <<>>
    /\ \E id \in IdUniverse \ idsOf(todos) : supprime(todos, id) = todos

(* Nearest integer to 100 * c / n, a half going up, in exact arithmetic.   *)
nearestPercent(c, n) ==
    CHOOSE r \in 0..100 : (2 * r - 1) * n <= 200 * c /\ 200 * c < (2 * r + 1) * n

(* C11: the progress shown is "0%" when the list is empty, "100%" when it   *)
(* is not empty and every task is completed, and otherwise the percentage  *)
(* 100 * completed / total rounded to the nearest integer.                 *)
C11_ProgressRounded ==
    /\ todos = <<>> => calculerProgress = "0%"
    /\ (todos # <<>> /\ completedTasks = Len(todos)) => calculerProgress = "100%"
    /\ (todos # <<>> /\ completedTasks # Len(todos)) =>
           calculerProgress = ToString(nearestPercent(completedTasks, Len(todos))) \o "%"

(* C12: the view of the mode "high-priority" holds exactly the tasks of    *)
(* the list that have priority high and are not completed, each once, in   *)
(* the order they have in the list.                                        *)
C12_HighPriorityView ==
    /\ viewOf(todos, "high-priority")
           = SelectSeq(todos, LAMBDA t : t.priority = "high" /\ ~t.isCompleted)
    /\ filtre = "high-priority" => filteredTodos = viewOf(todos, "high-priority")

(* The mode is "high-priority", a task shown there has just been toggled   *)
(* and left the view, and two other tasks of the list are shown.           *)
C12_Witness ==
    /\ lastOp = "toggleTask"
    /\ filtre = "high-priority"
    /\ Len(todos) = 3
    /\ Len(filteredTodos) = 2
    /\ \E k \in 1..Len(todos) : todos[k].priority = "high" /\ todos[k].isCompleted

(* C13: for every list and every filter mode the view is a stable          *)
(* partition of the tasks the mode keeps: the tasks with priority high,    *)
(* in the order of the list, and behind them the others, medium and low    *)
(* alike, in the order of the list.                                        *)
C13_StablePartition ==
    \A f \in FilterTypes :
        LET kept == SelectSeq(todos, LAMBDA t : matchesFiltre(t, f))
        IN viewOf(todos, f)
              = SelectSeq(kept, LAMBDA t : t.priority = "high")
                \o SelectSeq(kept, LAMBDA t : t.priority # "high")

(* The list holds a low, a medium and a high task in this order, none      *)
(* completed; the mode "active" has been chosen and shows the high task    *)
(* first, then the low one, then the medium one.                           *)
C13_Witness ==
    /\ filtre = "active"
    /\ Len(todos) = 3
    /\ <<todos[1].priority, todos[2].priority, todos[3].priority>>
           = <<"low", "medium", "high">>
    /\ filteredTodos = <<todos[3], todos[1], todos[2]>>

(* C14: every step that changes the list also sets lastUpdated: it is an   *)
(* add, which stamps the time of the clock, or lastUpdated changes in the  *)
(* step. No step changes the list and leaves lastUpdated as it was.        *)
C14_MutationStampsTime ==
    [][todos' # todos =>
          \/ AddStep /\ lastUpdated' = clock'
          \/ lastUpdated' # lastUpdated]_vars

(* C15: the loaded tasks are merged at most once, so no merge follows a    *)
(* merge; and once the component is unmounted, a load that settles, with   *)
(* tasks or with a failure, changes neither the list nor the loading flag  *)
(* nor the error.                                                          *)
C15_MergeOnceWhileAlive ==
    [][/\ LoadedStep => lastOp # "fetchLoaded"
       /\ (~alive /\ \E i \in 1..Len(pending), resp \in Responses :
                        fetchSettled(i, resp)) =>
              UNCHANGED <<todos, isLoading, error>>]_vars

(* C16: while a load is pending the user's mutations are not blocked: a    *)
(* title can be typed and, the list being below maxTodos, added; every     *)
(* task shown can be toggled and removed; the completed tasks can be       *)
(* cleared and the remaining ones completed; and each of these changes the *)
(* list at once, before the load settles.                                  *)
C16_LoadDoesNotBlock ==
    (alive /\ pending # <<>>) =>
        /\ ENABLED (\E v \in Titles : trim(v) # <<>> /\ setInputValue(v))
        /\ (trim(inputValue) # <<>> /\ Len(todos) < maxTodos) =>
               ENABLED (AddStep /\ Len(todos') = Len(todos) + 1)
        /\ \A id \in visibleIds :
               /\ ENABLED (toggleTask(id) /\ todos' # todos)
               /\ ENABLED (supprimerTask(id) /\ todos' # todos)
        /\ completedTasks # 0 => ENABLED (clearCompletedTodos /\ todos' # todos)
        /\ remainingTasks # 0 => ENABLED (marquerToutCompleted /\ todos' # todos)

(* C17: after clear-completed no task of the list is completed, and the    *)
(* list holds exactly the tasks that were not completed before, unchanged  *)
(* and in the order they had: completed is 0, remaining is what it was.    *)
C17_ClearCompleted ==
    [][clearCompletedTodos =>
          /\ \A k \in 1..Len(todos') : ~todos'[k].isCompleted
          /\ todos' = SelectSeq(todos, LAMBDA t : ~t.isCompleted)
          /\ completedTasks' = 0
          /\ remainingTasks' = remainingTasks]_vars

(* Clear-completed has just run on a list of three tasks and left the two  *)
(* that were not completed.                                                *)
C17_Witness ==
    /\ lastOp = "clearCompletedTodos"
    /\ Len(initialTasks) = 3
    /\ Len(todos) = 2
    /\ completedTasks = 0

(* C18: after complete-all every task of the list is completed; the number *)
(* of tasks, their order, ids, titles and priorities are what they were;   *)
(* remaining is 0 and the progress of a list that is not empty is "100%".  *)
C18_CompleteAll ==
    [][marquerToutCompleted =>
          /\ Len(todos') = Len(todos)
          /\ \A k \in 1..Len(todos) :
                /\ todos'[k].isCompleted
                /\ todos'[k].id = todos[k].id
                /\ todos'[k].titre = todos[k].titre
                /\ todos'[k].priority = todos[k].priority
          /\ remainingTasks' = 0
          /\ todos' # <<>> => progressOf(todos') = "100%"]_vars

(* Complete-all has just run on a list of three tasks of three priorities. *)
C18_Witness ==
    /\ lastOp = "marquerToutCompleted"
    /\ Len(todos) = 3
    /\ {todos[k].priority : k \in 1..3} = Priorities
    /\ remainingTasks = 0
    /\ calculerProgress = "100%"

(* C19: a toggle flips isCompleted of the one task that has the id and     *)
(* changes nothing else: the number of tasks, their order and every field  *)
(* of every other task stay; and toggling an id no task has leaves the     *)
(* whole list as it is.                                                    *)
C19_ToggleFlipsOne ==
    [][/\ \A id \in IdUniverse \ idsOf(todos) : toggled(todos, id) = todos
       /\ \A id \in visibleIds :
             toggleTask(id) =>
                \E k \in 1..Len(todos) :
                   /\ todos[k].id = id
                   /\ todos' = [todos EXCEPT ![k].isCompleted = ~todos[k].isCompleted]]_vars

(* The priority that the position in the response gives: index 0, 1, 2, ... *)
positionPriority(index) ==
    IF index % 3 = 0 THEN "high" ELSE IF index % 2 = 0 THEN "medium" ELSE "low"

(* C20: when a load succeeds, each loaded task gets the priority derived   *)
(* from its position in the response if enablePriority is true; if it is   *)
(* false each loaded task has the default priority medium, and the view    *)
(* shows the loaded tasks in the order of the response.                    *)
C20_PriorityOnlyWhenEnabled ==
    [][\A i \in 1..Len(pending), resp \in Responses :
          (fetchSettled(i, resp) /\ alive /\ resp.kind = "array") =>
             LET loaded == SubSeq(todos', Len(todos') - Len(resp.data) + 1, Len(todos'))
             IN /\ Len(todos') >= Len(resp.data)
                /\ \A k \in 1..Len(loaded) :
                      loaded[k].priority = IF enablePriority THEN positionPriority(k - 1)
                                           ELSE "medium"
                /\ ~enablePriority => viewOf(loaded, "tous") = loaded]_vars

(* C21: isLoading is true exactly while a request is in flight: it is      *)
(* false as long as no request was issued, true from the moment one is     *)
(* issued, and false once a request has come back, with tasks or with a    *)
(* failure, so that the input is not left disabled.                        *)
C21_LoadingWhilePending ==
    /\ requests = 0 => ~isLoading
    /\ alive => (isLoading <=> pending # <<>>)
    /\ lastOp \in {"fetchLoaded", "fetchFailed"} => ~isLoading

====
